---- MODULE Spec2Model ----
(***************************************************************************)
(* Model of the search orchestration of Advanced-Media-File-Searcher:      *)
(*   FileSearchService (search_service.py), FileTracker.find_file          *)
(*   (filetracker.py), MediaClassifier (media_classifier.py) and           *)
(*   BatchProcessor (batch_processor.py), driven by the Tk main thread     *)
(*   (search_tab.py, batch_tab.py).                                        *)
(*                                                                         *)
(* Threads: the GUI thread, at most one batch thread per batch run, and    *)
(* one search thread per accepted start_search.  Every access to an object *)
(* shared between threads (stop_event, search_thread, a thread's liveness, *)
(* batch_process_running, the cells captured by the batch closures) is a   *)
(* step of its own; code between two such accesses is local to the thread  *)
(* and is folded into the step that follows it.                            *)
(***************************************************************************)
EXTENDS Integers, Sequences, FiniteSets, TLC

(***************************************************************************)
(* Bounds                                                                  *)
(***************************************************************************)
MaxTerms == 2          \* longest term list handed to a batch run
MaxGuiCalls == 2       \* calls the GUI thread makes (start_search, stop_search,
                       \* start_batch_processing, stop_batch_processing)
MaxTimeouts == 1       \* waits for a running search that end by the timeout
MaxPieces == 3         \* pieces a file name is made of
MaxTermPieces == 3     \* pieces a search term is made of

MaxTasks == MaxGuiCalls + MaxGuiCalls * MaxTerms
TaskIds == 1..MaxTasks

(***************************************************************************)
(* The directory tree under the search location, as os.walk yields it:    *)
(* a sequence of directories, each a sequence of file ids.                 *)
(***************************************************************************)
Tree == << <<1, 2>> >>

\* category MediaClassifier.classify_and_parse_file gives each file
Category(f) == IF f = 1 THEN "Movie" ELSE "TV Show"

\* search terms: "A" is matched by both files, "B" by none
TermSet == {"A", "B"}

\* FileTracker.find_file's match decision for one file (either mode)
MatchFound(term, f) == term = "A"

\* title / SxE comparison of the smart TV Show filter of _run_search_task
TvTitleMatch(term, f) == term = "A"
TvSxeMatch(term, f) == term = "A" /\ f = 2

\* Step 3 of _run_search_task keeping every item
FilterKeep_NoCategory(term, f, sel, exact) == TRUE

\* Step 3 of _run_search_task: does the item pass the GUI-level filter
FilterKeep(term, f, sel, exact) ==
    IF exact
    THEN sel = "All" \/ Category(f) = sel
    ELSE IF sel = "TV Show"
         THEN Category(f) = "TV Show" /\ (TvTitleMatch(term, f) \/ TvSxeMatch(term, f))
         ELSE sel = "All" \/ Category(f) = sel

\* settings read from the widgets when a search or a batch is started
Configs == { [sel |-> "All",     exact |-> FALSE, mode |-> "Multiple"],
             [sel |-> "TV Show", exact |-> FALSE, mode |-> "Multiple"],
             [sel |-> "Movie",   exact |-> TRUE,  mode |-> "Single"] }

TermLists == UNION { [1..n -> TermSet] : n \in 1..MaxTerms }

NoError == "none"
AlreadyRunning == "A search is already in progress."
SearchError == "An error occurred during search"
BatchAlreadyRunning == "Batch process is already running."

GuiOwner == 0    \* callbacks of the search tab; r >= 1: closures of batch run r

VARIABLES
    cfg,                \* widget settings (selected type, exact match, instance mode)
    \* ---- FileSearchService
    stop_event,         \* threading.Event
    search_thread,      \* 0 = None, else the id of the last thread created
    nTasks,             \* threads created so far
    task,               \* per search thread: position and locals of _run_search_task
    \* ---- what each search thread's callbacks were invoked with (history)
    hist,
    \* ---- GUI thread
    gpc,                \* position of the GUI thread inside start_search
    gterm,              \* term of the start_search call in progress
    gcount,             \* calls the GUI thread has made so far, per operation
    gui_errors,         \* messages the GUI's error callbacks received synchronously
    \* ---- BatchProcessor
    batch_process_running,   \* threading.Event
    current_batch_thread,    \* 0 = None, else the number of the batch run
    batch_alive,             \* is_alive() of current_batch_thread
    bpc,                     \* position of the batch thread in _execute_batch_job
    search_terms,
    bi,                      \* loop index i (1-based)
    all_batch_results,
    single_search_complete_event,
    current_term_search_results,
    current_term_error,
    aliased,                 \* the last entry's 'results' is the list object the cell holds
    bhist,                   \* history of the batch run (completion calls, stop requests)
    \* ---- the parsing / matching functions applied on their own
    call,                    \* the function applied and its arguments
    ret                      \* its return value, once it has returned

svars == <<stop_event, search_thread, nTasks, task, hist>>
gvars == <<gpc, gterm, gcount, gui_errors>>
bstate == <<batch_process_running, current_batch_thread, batch_alive, bpc, search_terms, bi,
            all_batch_results, single_search_complete_event, current_term_search_results,
            current_term_error, aliased>>
bvars == <<bstate, bhist>>
pvars == <<call, ret>>
vars == <<call, ret, cfg, stop_event, search_thread, nTasks, task, hist, gpc, gterm, gcount, gui_errors,
          batch_process_running, current_batch_thread, batch_alive, bpc, search_terms, bi,
          all_batch_results, single_search_complete_event, current_term_search_results,
          current_term_error, aliased, bhist>>

\* no function is being applied on its own / it has not returned
NoCall == [fn |-> "none"]
NoRet == [fn |-> "none"]

\* bterm: the index of the batch term the thread was started for (0: GUI)
NoTask == [pc |-> "none", owner |-> GuiOwner, bterm |-> 0, term |-> "A", d |-> 0, k |-> 0,
           found |-> <<>>, fi |-> 0, final |-> <<>>]
\* what a thread has done so far; kept while the thread object is alive
\* (noloc: find_file found that the search location is not a directory)
NoHist == [res |-> <<>>, err |-> 0, compl |-> 0, saw_stop |-> "no", raised |-> FALSE,
           noloc |-> FALSE]

\* history of a batch run: the completion_callback calls, whether a stop was
\* requested, the waits that timed out, the terms whose own search observed
\* the stop signal, and what each term's own search passed to result_cb_inner
NoBatchHist(terms) ==
    [compl |-> <<>>, stop_req |-> FALSE, timeouts |-> 0, stopped |-> {},
     ret |-> [i \in 1..Len(terms) |-> <<>>]]

\* the application after FileSearchGUI.__init__
Orchestration ==
    /\ cfg \in Configs
    /\ stop_event = FALSE
    /\ search_thread = 0
    /\ nTasks = 0
    /\ task = [t \in TaskIds |-> NoTask]
    /\ hist = [t \in TaskIds |-> NoHist]
    /\ gpc = "idle"
    /\ gterm = "A"
    /\ gcount = [start_search |-> 0, stop_search |-> 0, start_batch |-> 0, stop_batch |-> 0]
    /\ gui_errors = <<>>
    /\ batch_process_running = FALSE
    /\ current_batch_thread = 0
    /\ batch_alive = FALSE
    /\ bpc = "none"
    /\ search_terms = <<>>
    /\ bi = 0
    /\ all_batch_results = <<>>
    /\ single_search_complete_event = FALSE
    /\ current_term_search_results = <<>>
    /\ current_term_error = NoError
    /\ aliased = FALSE
    /\ bhist = NoBatchHist(<<>>)

Init ==
    /\ Orchestration
    /\ call = NoCall
    /\ ret = NoRet

GuiCalls == gcount.start_search + gcount.stop_search + gcount.start_batch + gcount.stop_batch

\* threading.Thread.is_alive(): started and run() has not returned
is_alive(t) == t # 0 /\ task[t].pc \notin {"none", "created", "dead"}

\* the _run_search_task invocations that are executing
Running == {t \in TaskIds : is_alive(t)}

(***************************************************************************)
(* FileSearchService.start_search, search_service.py:36-48.  It runs in    *)
(* the caller's thread (GUI thread or batch thread) and takes no lock, so  *)
(* each access to self.search_thread / self.stop_event is a step.          *)
(***************************************************************************)

\* start_search without its guard
SearchInProgress_Unguarded == FALSE

\* line 36: the guard that rejects a start while a search thread is alive
SearchInProgress == is_alive(search_thread)

\* line 41 and line 181: self.stop_event.clear()
ClearStopEvent == stop_event' = FALSE

\* lines 41-45: the stop signal is cleared and self.search_thread is bound to
\* a new Thread, not yet started.  No step of another thread touches both the
\* event and the attribute, so the two writes are taken as one step.
CreateSearchThread(owner, term, bterm) ==
    LET t == nTasks + 1 IN
    /\ ClearStopEvent
    /\ nTasks' = t
    /\ search_thread' = t
    /\ task' = [task EXCEPT ![t] = [NoTask EXCEPT !.pc = "created", !.owner = owner,
                                                   !.bterm = bterm, !.term = term]]
    /\ UNCHANGED hist

\* line 47: self.search_thread.start() re-reads the attribute; starting a
\* thread a second time raises RuntimeError in the caller
StartRaises == task[search_thread].pc # "created"
StartSearchThread ==
    /\ ~StartRaises
    /\ task' = [task EXCEPT ![search_thread].pc = "walk_dir", ![search_thread].d = 1]

(***************************************************************************)
(* The GUI thread (SearchTabFrame / BatchTabFrame handlers)                *)
(***************************************************************************)

\* search_tab.py:317-325 -> start_search line 36-39
GuiStartSearch(term) ==
    /\ gpc = "idle"
    /\ GuiCalls < MaxGuiCalls
    /\ gcount' = [gcount EXCEPT !.start_search = @ + 1]
    /\ gterm' = term
    /\ IF SearchInProgress
       THEN /\ gui_errors' = Append(gui_errors, AlreadyRunning)
            /\ gpc' = "idle"
       ELSE /\ gpc' = "ss_create"
            /\ UNCHANGED gui_errors
    /\ UNCHANGED <<pvars, cfg, svars, bvars>>

GuiSsCreate ==
    /\ gpc = "ss_create"
    /\ CreateSearchThread(GuiOwner, gterm, 0)
    /\ gpc' = "ss_start"
    /\ UNCHANGED <<pvars, cfg, gterm, gcount, gui_errors, bvars>>

\* a RuntimeError raised in a Tk callback is reported and the main loop goes on
GuiSsStart ==
    /\ gpc = "ss_start"
    /\ gpc' = "idle"
    /\ IF StartRaises THEN UNCHANGED task ELSE StartSearchThread
    /\ UNCHANGED <<pvars, cfg, stop_event, search_thread, nTasks, hist, gterm, gcount, gui_errors, bvars>>

\* search_service.py:50-53
stop_search ==
    /\ gpc = "idle"
    /\ GuiCalls < MaxGuiCalls
    /\ gcount' = [gcount EXCEPT !.stop_search = @ + 1]
    /\ stop_event' = TRUE
    /\ UNCHANGED <<pvars, cfg, search_thread, nTasks, task, hist, gpc, gterm, gui_errors, bvars>>

(***************************************************************************)
(* BatchProcessor, batch_processor.py                                      *)
(***************************************************************************)

\* line 45: the guard that rejects a start while the batch thread is alive
BatchInProgress == current_batch_thread # 0 /\ batch_alive

\* start_batch_processing, lines 45-57.  Only the GUI thread calls it and
\* nothing else writes current_batch_thread, so the call is one step.
start_batch_processing(terms) ==
    /\ gpc = "idle"
    /\ GuiCalls < MaxGuiCalls
    /\ gcount' = [gcount EXCEPT !.start_batch = @ + 1]
    /\ IF BatchInProgress
       THEN /\ gui_errors' = Append(gui_errors, BatchAlreadyRunning)
            /\ UNCHANGED bvars
       ELSE /\ batch_process_running' = TRUE
            /\ current_batch_thread' = current_batch_thread + 1
            /\ batch_alive' = TRUE
            /\ bpc' = "loop"
            /\ search_terms' = terms
            /\ bi' = 1
            /\ all_batch_results' = <<>>
            /\ single_search_complete_event' = FALSE
            /\ current_term_search_results' = <<>>
            /\ current_term_error' = NoError
            /\ aliased' = FALSE
            /\ bhist' = NoBatchHist(terms)
            /\ UNCHANGED gui_errors
    /\ UNCHANGED <<pvars, cfg, svars, gpc, gterm>>

\* stop_batch_processing that also signals the search in flight to stop
stop_batch_processing_StopsSearch ==
    /\ gpc = "idle"
    /\ GuiCalls < MaxGuiCalls
    /\ gcount' = [gcount EXCEPT !.stop_batch = @ + 1]
    /\ batch_process_running' = FALSE
    /\ stop_event' = TRUE
    /\ bhist' = [bhist EXCEPT !.stop_req = @ \/ batch_alive]
    /\ UNCHANGED <<pvars, cfg, search_thread, nTasks, task, hist, gpc, gterm, gui_errors,
                   current_batch_thread, batch_alive, bpc,
                   search_terms, bi, all_batch_results, single_search_complete_event,
                   current_term_search_results, current_term_error, aliased>>

\* stop_batch_processing, lines 59-65
stop_batch_processing ==
    /\ gpc = "idle"
    /\ GuiCalls < MaxGuiCalls
    /\ gcount' = [gcount EXCEPT !.stop_batch = @ + 1]
    /\ batch_process_running' = FALSE
    /\ bhist' = [bhist EXCEPT !.stop_req = @ \/ batch_alive]
    /\ UNCHANGED <<pvars, cfg, svars, gpc, gterm, gui_errors, current_batch_thread, batch_alive, bpc,
                   search_terms, bi, all_batch_results, single_search_complete_event,
                   current_term_search_results, current_term_error, aliased>>

\* the stop check with its test inverted
LoopSeesStop_Inverted == batch_process_running

\* line 84: the stop check at the top of every iteration
LoopSeesStop == ~batch_process_running

\* _execute_batch_job lines 82-96 and 169-171: the head of one iteration
\* (stop check, progress callback, fresh event / result list / error for the
\* cells the closures share), or the end of the for loop
BLoop ==
    /\ bpc = "loop"
    /\ IF bi > Len(search_terms)
       THEN /\ bhist' = [bhist EXCEPT !.compl = Append(@, [results |-> all_batch_results,
                                                           was_stopped |-> FALSE,
                                                           ret |-> bhist.ret])]
            /\ bpc' = "done"
            /\ batch_alive' = FALSE
            /\ UNCHANGED <<single_search_complete_event, current_term_search_results,
                           current_term_error, aliased>>
       ELSE IF LoopSeesStop
       THEN /\ bhist' = [bhist EXCEPT !.compl = Append(@, [results |-> all_batch_results,
                                                           was_stopped |-> TRUE,
                                                           ret |-> bhist.ret])]
            /\ bpc' = "done"
            /\ batch_alive' = FALSE
            /\ UNCHANGED <<single_search_complete_event, current_term_search_results,
                           current_term_error, aliased>>
       ELSE /\ single_search_complete_event' = FALSE
            /\ current_term_search_results' = <<>>
            /\ current_term_error' = NoError
            /\ aliased' = FALSE
            /\ bpc' = "ss_check"
            /\ UNCHANGED <<bhist, batch_alive>>
    /\ UNCHANGED <<pvars, cfg, svars, gvars, batch_process_running, current_batch_thread,
                   search_terms, bi, all_batch_results>>

\* line 115 -> start_search lines 36-39; error_cb_inner stores the message
BSsCheck ==
    /\ bpc = "ss_check"
    /\ IF SearchInProgress
       THEN /\ current_term_error' = AlreadyRunning
            /\ bpc' = "wait"
       ELSE /\ bpc' = "ss_create"
            /\ UNCHANGED current_term_error
    /\ UNCHANGED <<pvars, cfg, svars, gvars, batch_process_running, current_batch_thread, batch_alive,
                   search_terms, bi, all_batch_results, single_search_complete_event,
                   current_term_search_results, aliased, bhist>>

BSsCreate ==
    /\ bpc = "ss_create"
    /\ CreateSearchThread(current_batch_thread, search_terms[bi], bi)
    /\ bpc' = "ss_start"
    /\ UNCHANGED <<pvars, cfg, gvars, batch_process_running,
                   current_batch_thread, batch_alive, search_terms, bi, all_batch_results,
                   single_search_complete_event, current_term_search_results,
                   current_term_error, aliased, bhist>>

\* the RuntimeError of a second start() is caught nowhere in
\* _execute_batch_job: the batch thread ends without its completion callback
BSsStart ==
    /\ bpc = "ss_start"
    /\ IF StartRaises
       THEN /\ bpc' = "crashed"
            /\ batch_alive' = FALSE
            /\ UNCHANGED task
       ELSE /\ StartSearchThread
            /\ bpc' = "wait"
            /\ UNCHANGED batch_alive
    /\ UNCHANGED <<pvars, cfg, stop_event, search_thread, nTasks, hist, gvars, batch_process_running,
                   current_batch_thread, search_terms, bi, all_batch_results,
                   single_search_complete_event, current_term_search_results,
                   current_term_error, aliased, bhist>>

\* line 127: single_search_complete_event.wait(timeout=3600)
WaitTimeout == 3600
WaitMayExpire == WaitTimeout > 0

BWaitSignalled ==
    /\ bpc = "wait"
    /\ single_search_complete_event
    /\ bpc' = "record"
    /\ UNCHANGED <<pvars, cfg, svars, gvars, batch_process_running, current_batch_thread, batch_alive,
                   search_terms, bi, all_batch_results, single_search_complete_event,
                   current_term_search_results, current_term_error, aliased, bhist>>

BWaitTimedOut ==
    /\ bpc = "wait"
    /\ ~single_search_complete_event
    /\ WaitMayExpire
    /\ \/ /\ current_term_error = AlreadyRunning
          /\ UNCHANGED bhist
       \/ /\ current_term_error # AlreadyRunning
          /\ bhist.timeouts < MaxTimeouts
          /\ bhist' = [bhist EXCEPT !.timeouts = @ + 1]
    /\ bpc' = "record"
    /\ UNCHANGED <<pvars, cfg, svars, gvars, batch_process_running, current_batch_thread, batch_alive,
                   search_terms, bi, all_batch_results, single_search_complete_event,
                   current_term_search_results, current_term_error, aliased>>

\* lines 130-164: the entry appended for the current term
TermEntry(term, results, error, mode) ==
    IF error # NoError
    THEN [term |-> term, results |-> <<>>, status |-> "error", error_message |-> error]
    ELSE IF results # <<>>
    THEN [term |-> term,
          results |-> IF mode = "Single" THEN <<results[1]>> ELSE results,
          status |-> "completed", error_message |-> NoError]
    ELSE [term |-> term, results |-> <<>>, status |-> "no_results", error_message |-> NoError]

\* lines 130-167, then back to the head of the loop
BRecord ==
    /\ bpc = "record"
    /\ LET e == TermEntry(search_terms[bi], current_term_search_results, current_term_error,
                          cfg.mode) IN
       /\ all_batch_results' = Append(all_batch_results, e)
       /\ aliased' = (e.status = "completed" /\ cfg.mode # "Single")
    /\ bi' = bi + 1
    /\ bpc' = "loop"
    /\ UNCHANGED <<pvars, cfg, svars, gvars, batch_process_running, current_batch_thread, batch_alive,
                   search_terms, single_search_complete_event, current_term_search_results,
                   current_term_error, bhist>>

(***************************************************************************)
(* FileSearchService._run_search_task, search_service.py:55-183, with      *)
(* FileTracker.find_file (filetracker.py:79-221) inlined                   *)
(***************************************************************************)

\* the cells result_cb_inner / error_cb_inner / completion_cb_inner close
\* over belong to the frame of the batch run that created them
CellsOf(owner) == owner # GuiOwner /\ owner = current_batch_thread

\* thread t has found the stop signal set at one of its checks
SawStop(t, where) ==
    /\ hist' = [hist EXCEPT ![t].saw_stop = IF @ = "no" THEN where ELSE @]
    /\ bhist' = IF CellsOf(task[t].owner)
                THEN [bhist EXCEPT !.stopped = @ \cup {task[t].bterm}]
                ELSE bhist

\* find_file has walked the whole tree or returned early: back at line 64
WalkDone(t, sawStop) ==
    /\ task' = [task EXCEPT ![t].pc = "post_walk", ![t].d = 0, ![t].k = 0]
    /\ IF sawStop THEN SawStop(t, "walk") ELSE UNCHANGED <<hist, bhist>>

\* where os.walk goes after file k of directory d
NextPos(d, k) ==
    IF k < Len(Tree[d]) THEN [pc |-> "walk_file", d |-> d, k |-> k + 1]
    ELSE IF d < Len(Tree) THEN [pc |-> "walk_dir", d |-> d + 1, k |-> 0]
    ELSE [pc |-> "post_walk", d |-> 0, k |-> 0]

\* filetracker.py:67-70: os.path.isdir(search_location) is False when
\* find_file is entered (the directory was removed after the handler's own
\* check, or the service was called with a path never checked): the empty
\* list is returned
NotADirectory(t) ==
    /\ task[t].d = 1
    /\ task' = [task EXCEPT ![t].pc = "post_walk", ![t].d = 0, ![t].k = 0]
    /\ hist' = [hist EXCEPT ![t].noloc = TRUE]
    /\ UNCHANGED bhist

\* filetracker.py:67-70 and 79-83: find_file is entered, or os.walk enters a
\* directory and the stop signal is checked
WalkDir(t) ==
    /\ task[t].pc = "walk_dir"
    /\ \/ NotADirectory(t)
       \/ IF stop_event
          THEN WalkDone(t, TRUE)
          ELSE LET n == NextPos(task[t].d, 0) IN
               IF n.pc = "post_walk"
               THEN WalkDone(t, FALSE)
               ELSE /\ task' = [task EXCEPT ![t].pc = n.pc, ![t].d = n.d, ![t].k = n.k]
                    /\ UNCHANGED <<hist, bhist>>
    /\ UNCHANGED <<pvars, cfg, stop_event, search_thread, nTasks, gvars, bstate>>

\* the loop over the files without the stop check of line 88
WalkFile_NoStopCheck(t) ==
    /\ task[t].pc = "walk_file"
    /\ LET f == Tree[task[t].d][task[t].k]
           fnd == IF MatchFound(task[t].term, f)
                  THEN Append(task[t].found, f) ELSE task[t].found
           n == NextPos(task[t].d, task[t].k) IN
       /\ task' = [task EXCEPT ![t].pc = n.pc, ![t].d = n.d, ![t].k = n.k,
                               ![t].found = fnd]
       /\ UNCHANGED <<hist, bhist>>
    /\ UNCHANGED <<pvars, cfg, stop_event, search_thread, nTasks, gvars, bstate>>

\* filetracker.py:85-219: the stop signal is checked, then one file is matched
WalkFile(t) ==
    /\ task[t].pc = "walk_file"
    /\ IF stop_event
       THEN WalkDone(t, TRUE)
       ELSE LET f == Tree[task[t].d][task[t].k]
                fnd == IF MatchFound(task[t].term, f)
                       THEN Append(task[t].found, f) ELSE task[t].found
                n == NextPos(task[t].d, task[t].k) IN
            /\ task' = [task EXCEPT ![t].pc = n.pc, ![t].d = n.d, ![t].k = n.k,
                                    ![t].found = fnd]
            /\ UNCHANGED <<hist, bhist>>
    /\ UNCHANGED <<pvars, cfg, stop_event, search_thread, nTasks, gvars, bstate>>

\* search_service.py:66-68
PostWalk(t) ==
    /\ task[t].pc = "post_walk"
    /\ IF stop_event
       THEN /\ task' = [task EXCEPT ![t].pc = "finally"]
            /\ SawStop(t, "post")
       ELSE /\ task' = [task EXCEPT ![t].pc = "classify"]
            /\ UNCHANGED <<hist, bhist>>
    /\ UNCHANGED <<pvars, cfg, stop_event, search_thread, nTasks, gvars, bstate>>

\* search_service.py:72-76: categorize_and_process_results has no handler of
\* its own, an exception raised for one file leaves the try block (line 177)
Classify(t) ==
    /\ task[t].pc = "classify"
    /\ \/ /\ task[t].found # <<>>
          /\ task' = [task EXCEPT ![t].pc = "error_cb"]
          /\ hist' = [hist EXCEPT ![t].raised = TRUE]
          /\ UNCHANGED bhist
       \/ IF stop_event
          THEN /\ task' = [task EXCEPT ![t].pc = "finally"]
               /\ SawStop(t, "post")
          ELSE /\ task' = [task EXCEPT ![t].pc = IF task[t].found = <<>> THEN "result_cb"
                                                 ELSE "filter",
                                       ![t].fi = 1]
               /\ UNCHANGED <<hist, bhist>>
    /\ UNCHANGED <<pvars, cfg, stop_event, search_thread, nTasks, gvars, bstate>>

\* search_service.py:84-91, 106-163, 166-171: one iteration of the filter loop
Filter(t) ==
    /\ task[t].pc = "filter"
    /\ IF stop_event
       THEN /\ task' = [task EXCEPT ![t].pc = "result_cb"]
            /\ SawStop(t, "filter")
       ELSE LET f == task[t].found[task[t].fi]
                fin == IF FilterKeep(task[t].term, f, cfg.sel, cfg.exact)
                       THEN Append(task[t].final, f) ELSE task[t].final IN
            /\ task' = [task EXCEPT ![t].final = fin,
                                    ![t].fi = @ + 1,
                                    ![t].pc = IF task[t].fi = Len(task[t].found)
                                              THEN "result_cb" ELSE "filter"]
            /\ UNCHANGED <<hist, bhist>>
    /\ UNCHANGED <<pvars, cfg, stop_event, search_thread, nTasks, gvars, bstate>>

\* search_service.py:175; batch_processor.py:99-102 appends to whatever list
\* the cell holds now, which the last entry may share (line 147)
ResultCb(t) ==
    /\ task[t].pc = "result_cb"
    /\ task' = [task EXCEPT ![t].pc = "finally"]
    /\ hist' = [hist EXCEPT ![t].res = Append(@, task[t].final)]
    /\ IF CellsOf(task[t].owner)
       THEN /\ current_term_search_results' = current_term_search_results \o task[t].final
            /\ all_batch_results' =
                   IF aliased
                   THEN [all_batch_results EXCEPT ![Len(all_batch_results)].results =
                                                      @ \o task[t].final]
                   ELSE all_batch_results
            /\ bhist' = [bhist EXCEPT !.ret[task[t].bterm] = <<task[t].final>>]
       ELSE UNCHANGED <<current_term_search_results, all_batch_results, bhist>>
    /\ UNCHANGED <<pvars, cfg, stop_event, search_thread, nTasks, gvars, batch_process_running,
                   current_batch_thread, batch_alive, bpc, search_terms, bi,
                   single_search_complete_event, current_term_error, aliased>>

\* search_service.py:177-179; batch_processor.py:104-108
ErrorCb(t) ==
    /\ task[t].pc = "error_cb"
    /\ task' = [task EXCEPT ![t].pc = "finally"]
    /\ hist' = [hist EXCEPT ![t].err = @ + 1]
    /\ current_term_error' = IF CellsOf(task[t].owner) THEN SearchError ELSE current_term_error
    /\ UNCHANGED <<pvars, cfg, stop_event, search_thread, nTasks, gvars, batch_process_running,
                   current_batch_thread, batch_alive, bpc, search_terms, bi, all_batch_results,
                   single_search_complete_event, current_term_search_results, aliased, bhist>>

\* search_service.py:180-182, the finally block: the stop signal is cleared
\* and the completion callback invoked (batch_processor.py:110-112 sets the
\* event the cell holds now).  No step of another thread touches both events,
\* so the two writes are taken as one step.
Finally(t) ==
    /\ task[t].pc = "finally"
    /\ ClearStopEvent
    /\ task' = [task EXCEPT ![t].pc = "exit"]
    /\ hist' = [hist EXCEPT ![t].compl = @ + 1]
    /\ single_search_complete_event' =
           IF CellsOf(task[t].owner) THEN TRUE ELSE single_search_complete_event
    /\ UNCHANGED <<pvars, cfg, search_thread, nTasks, gvars, batch_process_running,
                   current_batch_thread, batch_alive, bpc, search_terms, bi, all_batch_results,
                   current_term_search_results, current_term_error, aliased, bhist>>

\* search_service.py:183: run() returns, is_alive() becomes False
ThreadExit(t) ==
    /\ task[t].pc = "exit"
    /\ task' = [task EXCEPT ![t] = [NoTask EXCEPT !.pc = "dead"]]
    /\ hist' = [hist EXCEPT ![t] = NoHist]
    /\ UNCHANGED <<pvars, cfg, stop_event, search_thread, nTasks, gvars, bvars>>

GuiNext ==
    \/ \E term \in TermSet : GuiStartSearch(term)
    \/ GuiSsCreate
    \/ GuiSsStart
    \/ stop_search
    \/ \E terms \in TermLists : start_batch_processing(terms)
    \/ stop_batch_processing

BatchNext ==
    \/ BLoop
    \/ BSsCheck
    \/ BSsCreate
    \/ BSsStart
    \/ BWaitSignalled
    \/ BWaitTimedOut
    \/ BRecord

SearchNext(t) ==
    \/ WalkDir(t)
    \/ WalkFile(t)
    \/ PostWalk(t)
    \/ Classify(t)
    \/ Filter(t)
    \/ ResultCb(t)
    \/ ErrorCb(t)
    \/ Finally(t)
    \/ ThreadExit(t)

Next ==
    \/ GuiNext
    \/ BatchNext
    \/ \E t \in TaskIds : SearchNext(t)

Spec == Init /\ [][Next]_vars

(***************************************************************************)
(* Strings.  A Python str is a TLA+ string; Ch(s, i) is s[i-1] of Python   *)
(* (positions are numbered from 1 here).                                   *)
(***************************************************************************)
Ch(s, i) == SubSeq(s, i, i)

UpperCase == "ABCDEFGHIJKLMNOPQRSTUVWXYZ"
LowerCase == "abcdefghijklmnopqrstuvwxyz"
DigitChars == "0123456789"

\* position of character c in alphabet a, 0 if absent
IndexIn(a, c) ==
    IF \E i \in 1..Len(a) : Ch(a, i) = c
    THEN CHOOSE i \in 1..Len(a) : Ch(a, i) = c
    ELSE 0

CharsOf(a) == {Ch(a, i) : i \in 1..Len(a)}
UpperSet == CharsOf(UpperCase)
LowerSet == CharsOf(LowerCase)
DigitSet == CharsOf(DigitChars)
WordSet == UpperSet \cup LowerSet \cup DigitSet \cup {"_"}

IsDigit(c) == c \in DigitSet
IsAlpha(c) == c \in UpperSet \/ c \in LowerSet
\* \w of the re module
IsWordChar(c) == c \in WordSet
\* \s of the re module, and what str.strip() removes
IsSpace(c) == c \in {" ", "\t", "\n", "\r"}

LowerMap == [c \in UpperSet |-> Ch(LowerCase, IndexIn(UpperCase, c))]
LowerChar(c) == IF c \in UpperSet THEN LowerMap[c] ELSE c

\* str.lower()
RECURSIVE lower(_)
lower(s) == IF s = "" THEN "" ELSE LowerChar(Ch(s, 1)) \o lower(Tail(s))

RECURSIVE lstrip(_)
lstrip(s) == IF s # "" /\ IsSpace(Ch(s, 1)) THEN lstrip(Tail(s)) ELSE s

RECURSIVE rstrip(_)
rstrip(s) ==
    IF s # "" /\ IsSpace(Ch(s, Len(s))) THEN rstrip(SubSeq(s, 1, Len(s) - 1)) ELSE s

\* str.strip()
strip(s) == rstrip(lstrip(s))

DigitValue == [c \in DigitSet |-> IndexIn(DigitChars, c) - 1]

\* int() of a string of decimal digits
RECURSIVE int(_)
int(s) ==
    IF s = "" THEN 0
    ELSE 10 * int(SubSeq(s, 1, Len(s) - 1)) + DigitValue[Ch(s, Len(s))]

\* a in b  (substring test)
Contains(a, b) ==
    \E i \in 0..(Len(b) - Len(a)) : SubSeq(b, i + 1, i + Len(a)) = a

\* the least and the greatest element of a nonempty set of positions
MinOf(S) == CHOOSE m \in S : \A n \in S : m <= n
MaxOf(S) == CHOOSE m \in S : \A n \in S : m >= n

(***************************************************************************)
(* BaseParser, base_parser.py                                              *)
(***************************************************************************)

\* re.sub(r'[._-]', ' ', text)
RECURSIVE ReplaceSeparators(_)
ReplaceSeparators(s) ==
    IF s = "" THEN ""
    ELSE (IF Ch(s, 1) \in {".", "_", "-"} THEN " " ELSE Ch(s, 1)) \o ReplaceSeparators(Tail(s))

\* re.sub(r'\s+', ' ', text)
RECURSIVE CollapseSpaces(_)
CollapseSpaces(s) ==
    IF s = "" THEN ""
    ELSE IF IsSpace(Ch(s, 1)) THEN " " \o CollapseSpaces(lstrip(s))
    ELSE Ch(s, 1) \o CollapseSpaces(Tail(s))

normalize_string_for_comparison_NoStrip(text) ==
    CollapseSpaces(ReplaceSeparators(lower(text)))

\* BaseParser._normalize_string_for_comparison
normalize_string_for_comparison(text) ==
    strip(CollapseSpaces(ReplaceSeparators(lower(text))))

\* \b before position i: exactly one of s[i-1], s[i] is a word character
IsWordAt(s, i) == i >= 1 /\ i <= Len(s) /\ IsWordChar(Ch(s, i))
Boundary(s, i) == IsWordAt(s, i - 1) # IsWordAt(s, i)

\* n digits starting at position i
DigitsAt(s, i, n) == i + n - 1 <= Len(s) /\ \A j \in i..(i + n - 1) : IsDigit(Ch(s, j))

\* the ways \b[Ss](\d{1,2})[Ee](\d{1,2}(?:-\d{1,2})?)\b can match at one
\* position, in the order the regex engine tries them: sl season digits, el
\* episode digits, rl digits after the hyphen (0: no hyphen part)
SxEShapes ==
    << [sl |-> 2, el |-> 2, rl |-> 2], [sl |-> 2, el |-> 2, rl |-> 1], [sl |-> 2, el |-> 2, rl |-> 0],
       [sl |-> 2, el |-> 1, rl |-> 2], [sl |-> 2, el |-> 1, rl |-> 1], [sl |-> 2, el |-> 1, rl |-> 0],
       [sl |-> 1, el |-> 2, rl |-> 2], [sl |-> 1, el |-> 2, rl |-> 1], [sl |-> 1, el |-> 2, rl |-> 0],
       [sl |-> 1, el |-> 1, rl |-> 2], [sl |-> 1, el |-> 1, rl |-> 1], [sl |-> 1, el |-> 1, rl |-> 0] >>

\* position after the match of shape sh that starts at i
SxEAfter(i, sh) == i + 1 + sh.sl + 1 + sh.el + (IF sh.rl = 0 THEN 0 ELSE 1 + sh.rl)

\* the pattern matches at position i with shape sh; withBoundary: the \b's
SxEMatchAt(s, i, sh, withBoundary) ==
    LET e == i + 1 + sh.sl
        r == e + 1 + sh.el IN
    /\ i <= Len(s) /\ LowerChar(Ch(s, i)) = "s"
    /\ (withBoundary => Boundary(s, i))
    /\ DigitsAt(s, i + 1, sh.sl)
    /\ e <= Len(s) /\ LowerChar(Ch(s, e)) = "e"
    /\ DigitsAt(s, e + 1, sh.el)
    /\ (sh.rl > 0 => (r <= Len(s) /\ Ch(s, r) = "-" /\ DigitsAt(s, r + 1, sh.rl)))
    /\ (withBoundary => Boundary(s, SxEAfter(i, sh)))

SxEMatchesAt(s, i, withBoundary) ==
    \E k \in 1..Len(SxEShapes) : SxEMatchAt(s, i, SxEShapes[k], withBoundary)

\* the shape the engine settles on at position i
SxEShapeAt(s, i, withBoundary) ==
    SxEShapes[CHOOSE k \in 1..Len(SxEShapes) :
                 /\ SxEMatchAt(s, i, SxEShapes[k], withBoundary)
                 /\ \A j \in 1..(k - 1) : ~SxEMatchAt(s, i, SxEShapes[j], withBoundary)]

NoSxE == [found |-> FALSE, season |-> -1, episode |-> "", first |-> 0, after |-> 0]

\* the positions where the pattern of line 42 matches
SxEStarts(text) == {i \in 1..Len(text) : SxEMatchesAt(text, i, TRUE)}

\* the groups and the span of the match of shape sh that starts at i
SxEResult(text, i, sh) ==
    [found |-> TRUE,
     season |-> int(SubSeq(text, i + 1, i + sh.sl)),
     episode |-> SubSeq(text, i + 2 + sh.sl, SxEAfter(i, sh) - 1),
     first |-> i,
     after |-> SxEAfter(i, sh)]

SxEFirstMatch(text, starts) ==
    IF starts = {} THEN NoSxE
    ELSE SxEResult(text, MinOf(starts), SxEShapeAt(text, MinOf(starts), TRUE))

\* BaseParser.extract_season_episode_from_string.  found = FALSE stands for
\* (None, None, -1, -1); first / after are match.start() + 1, match.end() + 1
extract_season_episode_from_string(text) == SxEFirstMatch(text, SxEStarts(text))

\* the two numbers of an episode string with a hyphen at position h
EpisodeRange(episode, h) ==
    {int(SubSeq(episode, 1, h - 1)), int(SubSeq(episode, h + 1, Len(episode)))}

\* the episode numbers of an episode string such as "04" or "04-05"
episode_numbers(episode) ==
    IF episode = "" THEN {}
    ELSE IF \E i \in 1..Len(episode) : Ch(episode, i) = "-"
    THEN EpisodeRange(episode, CHOOSE i \in 1..Len(episode) : Ch(episode, i) = "-")
    ELSE {int(episode)}

\* the alternatives of the tag patterns, lower case (every pattern is
\* compiled with re.IGNORECASE), in the order written; "?" stands for an
\* unescaped '.', which matches any character
resolution_pattern == <<"480p", "700p", "720p", "1080p", "1440p", "2160p", "4k", "8k">>
source_pattern ==
    <<"web-dl", "webrip", "bluray", "bdrip", "dvdrip", "hdrip", "hdtv", "dvd", "vod", "ddc",
      "cam", "ts", "r5", "wp", "scr">>
video_format_pattern == <<"x264", "x265", "hevc", "h.264", "h.265", "vp9", "av1", "xvid", "divx">>
audio_format_pattern == <<"ac3", "dts", "dts-hd", "truehd", "atmos", "dd5.1", "aac", "mp3">>
version_pattern ==
    <<"proper", "repack", "rerip", "extended", "uncut", "unrated", "directors?cut", "remastered",
      "collectors?edition">>
\* (eng|...)(?:dub|sub)? : the optional suffix is tried before its absence
language_pattern ==
    <<"engdub", "engsub", "eng", "itadub", "itasub", "ita", "fredub", "fresub", "fre",
      "deudub", "deusub", "deu", "jpndub", "jpnsub", "jpn", "kordub", "korsub", "kor",
      "spadub", "spasub", "spa", "rusdub", "russub", "rus">>
bit_depth_pattern == <<"8bit", "10bit", "12bit">>
hdr_pattern == <<"hdr", "hdr10", "dolbyvision", "dv">>
repack_pattern == <<"repack", "proper">>

\* alternative w matches s at position i, ignoring case
AltMatchAt(s, i, w) ==
    /\ i + Len(w) - 1 <= Len(s)
    /\ \A j \in 1..Len(w) : Ch(w, j) = "?" \/ LowerChar(Ch(s, i + j - 1)) = Ch(w, j)

\* \b(alt1|alt2|...)\b at position i: length of the match, 0 if none
WordsMatchLen(alts, s, i) ==
    LET ok(k) == AltMatchAt(s, i, alts[k]) /\ Boundary(s, i + Len(alts[k])) IN
    IF Boundary(s, i) /\ \E k \in 1..Len(alts) : ok(k)
    THEN Len(alts[CHOOSE k \in 1..Len(alts) : ok(k) /\ \A j \in 1..(k - 1) : ~ok(j)])
    ELSE 0

\* year_pattern \b(\d{4})\b at position i: length of the match, 0 if none
YearMatchLen(s, i) ==
    IF Boundary(s, i) /\ DigitsAt(s, i, 4) /\ Boundary(s, i + 4) THEN 4 ELSE 0

year_pattern == <<"\\d{4}">>

\* a pattern is year_pattern or a list of alternatives
MatchLen(p, s, i) == IF p = year_pattern THEN YearMatchLen(s, i) ELSE WordsMatchLen(p, s, i)

\* the positions where pattern p matches
PatternStarts(p, text) == {i \in 1..Len(text) : MatchLen(p, text, i) > 0}

FirstMatch(p, text, starts) ==
    IF starts = {} THEN ""
    ELSE SubSeq(text, MinOf(starts), MinOf(starts) + MatchLen(p, text, MinOf(starts)) - 1)

\* pattern.search(text): the matched text (group 0), "" if there is no match
PatternSearch(p, text) == FirstMatch(p, text, PatternStarts(p, text))

\* pattern.sub('', text), scanning from position i
RECURSIVE PatternSubFrom(_, _, _)
PatternSubFrom(p, text, i) ==
    IF i > Len(text) THEN ""
    ELSE LET n == MatchLen(p, text, i) IN
         IF n > 0 THEN PatternSubFrom(p, text, i + n)
         ELSE Ch(text, i) \o PatternSubFrom(p, text, i + 1)

PatternSub(p, text) == PatternSubFrom(p, text, 1)

\* a character of the class [A-Za-z0-9_.-]
GroupSet == WordSet \cup {".", "-"}
IsGroupChar(c) == c \in GroupSet

\* \[?[A-Za-z0-9_.-]+\]?$ matches the whole of t
GroupBodyMatches(t) ==
    \E b \in {0, 1}, c \in {0, 1} :
        /\ Len(t) >= b + c + 1
        /\ (b = 1 => Ch(t, 1) = "[")
        /\ (c = 1 => Ch(t, Len(t)) = "]")
        /\ \A j \in (b + 1)..(Len(t) - c) : IsGroupChar(Ch(t, j))

\* the optional separator in front of the group tag is taken
GroupSepTaken(t) == t # "" /\ Ch(t, 1) \in {"-", "_", ".", " "} /\ GroupBodyMatches(Tail(t))

\* group_tag_pattern [-_. ]?(\[?[A-Za-z0-9_.-]+\]?)$ matches the whole of t
GroupTagMatches(t) == GroupSepTaken(t) \/ GroupBodyMatches(t)

\* the positions from which group_tag_pattern matches up to the end
GroupTagStarts(text) ==
    {i \in 1..Len(text) : GroupTagMatches(SubSeq(text, i, Len(text)))}

FirstOrZero(starts) == IF starts = {} THEN 0 ELSE MinOf(starts)

\* group_tag_pattern.search(text): where the match starts, 0 if none
GroupTagStart(text) == FirstOrZero(GroupTagStarts(text))

\* group(1) of the match that starts at start
GroupTagFrom(text, start) ==
    IF start = 0 THEN ""
    ELSE IF GroupSepTaken(SubSeq(text, start, Len(text)))
    THEN SubSeq(text, start + 1, Len(text))
    ELSE SubSeq(text, start, Len(text))

\* group(1) of group_tag_pattern.search(text), "" if there is no match
GroupTag(text) == GroupTagFrom(text, GroupTagStart(text))

\* the text without the match that starts at start
GroupTagCut(text, start) == IF start = 0 THEN text ELSE SubSeq(text, 1, start - 1)

\* group_tag_pattern.sub('', text)
GroupTagSub(text) == GroupTagCut(text, GroupTagStart(text))

\* the patterns _clean_string_of_all_tags removes, in its order
TagPatterns ==
    << year_pattern, resolution_pattern, source_pattern, video_format_pattern,
       audio_format_pattern, version_pattern, language_pattern, bit_depth_pattern,
       hdr_pattern, repack_pattern >>

RECURSIVE SubAll(_, _)
SubAll(patterns, text) ==
    IF patterns = <<>> THEN text
    ELSE SubAll(Tail(patterns), PatternSub(Head(patterns), text))

\* BaseParser._clean_string_of_all_tags
clean_string_of_all_tags(text) ==
    normalize_string_for_comparison(GroupTagSub(SubAll(TagPatterns, text)))

\* the positions where \b(19\d{2}|20\d{2})\b matches
YearStarts(text) ==
    {i \in 1..Len(text) : YearMatchLen(text, i) = 4 /\ SubSeq(text, i, i + 1) \in {"19", "20"}}

FirstYear(text, starts) ==
    IF starts = {} THEN 0 ELSE int(SubSeq(text, MinOf(starts), MinOf(starts) + 3))

\* BaseParser.extract_year_from_string: the year found first, 0 if none
extract_year_from_string(text) == FirstYear(text, YearStarts(text))

(***************************************************************************)
(* MovieParser.parse_movie_filename, movie_parser.py:9-59.                 *)
(* A field that is None in the code is "" here.                            *)
(***************************************************************************)
parse_movie_filename(filename_without_ext) ==
    [type |-> "Movie",
     title |-> clean_string_of_all_tags(filename_without_ext),
     year |-> PatternSearch(year_pattern, filename_without_ext),
     resolution |-> PatternSearch(resolution_pattern, filename_without_ext),
     source |-> PatternSearch(source_pattern, filename_without_ext),
     video_format |-> PatternSearch(video_format_pattern, filename_without_ext),
     audio_format |-> PatternSearch(audio_format_pattern, filename_without_ext),
     group_tag |-> GroupTag(filename_without_ext),
     version |-> PatternSearch(version_pattern, filename_without_ext),
     original_filename |-> filename_without_ext]

(***************************************************************************)
(* TvShowParser.parse_tv_show_filename, tv_show_parser.py:9-116            *)
(***************************************************************************)

\* \b\d{4}[.\s-]?\d{2}[.\s-]?\d{2}\b at position i: length of the match, 0 if none
DateMatchLen(s, i) ==
    LET isSep(c) == c \in {".", "-"} \/ IsSpace(c)
        a == IF i + 4 <= Len(s) /\ isSep(Ch(s, i + 4)) THEN 1 ELSE 0
        b == IF i + 6 + a <= Len(s) /\ isSep(Ch(s, i + 6 + a)) THEN 1 ELSE 0 IN
    IF /\ Boundary(s, i)
       /\ DigitsAt(s, i, 4)
       /\ DigitsAt(s, i + 4 + a, 2)
       /\ DigitsAt(s, i + 6 + a + b, 2)
       /\ Boundary(s, i + 8 + a + b)
    THEN 8 + a + b ELSE 0

RECURSIVE DateSubFrom(_, _)
DateSubFrom(text, i) ==
    IF i > Len(text) THEN ""
    ELSE LET n == DateMatchLen(text, i) IN
         IF n > 0 THEN DateSubFrom(text, i + n) ELSE Ch(text, i) \o DateSubFrom(text, i + 1)

\* the words an episode title may not consist of (line 57)
NotEpisodeTitles == {"hdtv", "webrip", "bluray", "x264", "x265", "killers", "proper", "repack"}

\* lines 49-51: a leading dot or hyphen of the part after the token is dropped
StripLeadingSeparator(post) ==
    IF post # "" /\ Ch(post, 1) \in {".", "-"} THEN strip(Tail(post)) ELSE post

\* lines 55-60
EpisodeTitle(episode_title_candidate) ==
    IF episode_title_candidate \notin NotEpisodeTitles THEN episode_title_candidate ELSE ""

\* lines 39-63: the name holds an SxxExx token
TvCoreWithSxE(stem, sxe) ==
    [season |-> sxe.season, episode |-> sxe.episode,
     episode_title |-> EpisodeTitle(clean_string_of_all_tags(
                           StripLeadingSeparator(strip(SubSeq(stem, sxe.after, Len(stem)))))),
     year |-> 0,
     title |-> clean_string_of_all_tags(strip(SubSeq(stem, 1, sxe.first - 1)))]

\* lines 64-77: no SxxExx token
TvCoreWithoutSxE(stem, year) ==
    [season |-> -1, episode |-> "", episode_title |-> "", year |-> year,
     title |-> IF year # 0
               THEN clean_string_of_all_tags(strip(DateSubFrom(stem, 1)))
               ELSE clean_string_of_all_tags(stem)]

\* lines 37-77: season, episode, episode_title and the title before the
\* final normalisation; season = -1 and episode = "" stand for None
TvCoreOf(stem, sxe) ==
    IF sxe.found THEN TvCoreWithSxE(stem, sxe)
    ELSE TvCoreWithoutSxE(stem, extract_year_from_string(stem))

TvCore(stem) == TvCoreOf(stem, extract_season_episode_from_string(stem))

\* lines 19-116: the record returned, given the fields of lines 37-77
TvRecord(core, filename_without_ext) ==
    [type |-> "TV Show",
     title |-> IF core.title # "" THEN normalize_string_for_comparison(core.title)
               ELSE normalize_string_for_comparison(filename_without_ext),
     season |-> core.season,
     episode |-> core.episode,
     episode_title |-> core.episode_title,
     year |-> core.year,
     resolution |-> PatternSearch(resolution_pattern, filename_without_ext),
     source |-> PatternSearch(source_pattern, filename_without_ext),
     video_format |-> PatternSearch(video_format_pattern, filename_without_ext),
     audio_format |-> PatternSearch(audio_format_pattern, filename_without_ext),
     group_tag |-> GroupTag(filename_without_ext),
     version |-> PatternSearch(version_pattern, filename_without_ext),
     language |-> PatternSearch(language_pattern, filename_without_ext),
     bit_depth |-> PatternSearch(bit_depth_pattern, filename_without_ext),
     hdr |-> PatternSearch(hdr_pattern, filename_without_ext),
     original_filename |-> filename_without_ext]

parse_tv_show_filename(filename_without_ext) ==
    TvRecord(TvCore(filename_without_ext), filename_without_ext)

(***************************************************************************)
(* MediaClassifier.classify_and_parse_file, media_classifier.py:13-58      *)
(***************************************************************************)

\* the last dot, at d, starts an extension if a character other than a dot
\* stands before it
ExtStartAt(name, d) ==
    IF \E j \in 1..(d - 1) : Ch(name, j) # "." THEN d ELSE Len(name) + 1

ExtStartIn(name, dots) ==
    IF dots = {} THEN Len(name) + 1 ELSE ExtStartAt(name, MaxOf(dots))

\* os.path.splitext of a base name: where the extension starts (the last
\* dot that has a character other than a dot before it), Len + 1 if none
ExtStart(name) == ExtStartIn(name, {i \in 1..Len(name) : Ch(name, i) = "."})

SplitAt(name, e) == [stem |-> SubSeq(name, 1, e - 1), ext |-> SubSeq(name, e, Len(name))]

splitext(name) == SplitAt(name, ExtStart(name))

\* the movie heuristic looking at the year only
IsMovie_YearOnly(movie_data) == movie_data.year # ""

\* line 49-53: the movie heuristic
IsMovie(movie_data) ==
    \/ movie_data.year # ""
    \/ movie_data.resolution # ""
    \/ movie_data.source # ""
    \/ movie_data.video_format # ""

\* line 41: the TV test
IsTvShow(tv_show_data) == tv_show_data.season # -1 /\ tv_show_data.episode # ""

Classified(base_name, tv_show_data, movie_data) ==
    IF IsTvShow(tv_show_data)
    THEN [category |-> "TV Show", parsed_data |-> tv_show_data]
    ELSE IF IsMovie(movie_data)
    THEN [category |-> "Movie", parsed_data |-> movie_data]
    ELSE [category |-> "Other", parsed_data |-> [original_filename |-> base_name]]

ClassifyStem(base_name, filename_without_ext) ==
    Classified(base_name, parse_tv_show_filename(filename_without_ext),
               parse_movie_filename(filename_without_ext))

classify_and_parse_file(base_name) == ClassifyStem(base_name, splitext(base_name).stem)

(***************************************************************************)
(* FileTracker.find_file, filetracker.py: the decision taken for one file  *)
(***************************************************************************)

\* line 75: extensions that are never searched
system_file_extensions_to_exclude == {".db", ".ini", ".ds_store", ".git", ".log"}

\* lines 96-99: the file is looked at (it is neither a system file nor hidden)
IsCandidate(file) ==
    /\ lower(splitext(file).ext) \notin system_file_extensions_to_exclude
    /\ ~(file # "" /\ Ch(file, 1) = ".")

\* lines 113-139: the two comparisons of exact mode
ExactEquals(prepared_search_term, full_filename_lower, base_filename_lower) ==
    prepared_search_term = full_filename_lower \/ prepared_search_term = base_filename_lower

\* exact mode comparing normalised forms
ExactMatch_Normalized(search_term, file) ==
    normalize_string_for_comparison(search_term)
        = normalize_string_for_comparison(splitext(file).stem)

\* lines 37-46 and 113-139: exact mode
ExactMatch(search_term, file) ==
    ExactEquals(strip(lower(search_term)), strip(lower(file)),
                strip(lower(splitext(file).stem)))

\* the text in front of the SxxExx token, the whole text if there is none
TitleBefore(text, sxe) ==
    IF sxe.found THEN strip(SubSeq(text, 1, sxe.first - 1)) ELSE text

\* lines 49-59: the title part of the search term
SearchTitlePart(search_term) ==
    normalize_string_for_comparison(
        TitleBefore(search_term, extract_season_episode_from_string(search_term)))

\* lines 158-168: the title part of the file name
FileTitlePart(filename_without_ext) ==
    normalize_string_for_comparison(
        TitleBefore(filename_without_ext,
                    extract_season_episode_from_string(filename_without_ext)))

\* lines 170-176
TitleCheck(search_title_part, file_title) ==
    search_title_part # "" => Contains(search_title_part, file_title)

\* the season/episode check comparing seasons only
SxECheck_SeasonOnly(s, p) == s.found => (p.found /\ p.season = s.season)

\* lines 181-208 (and search_service.py:129-156): s, p are the results of
\* extract_season_episode_from_string for the term and for the file
SxECheck(s, p) ==
    s.found =>
        /\ p.season = s.season
        /\ p.found
        /\ episode_numbers(s.episode) \cap episode_numbers(p.episode) # {}

\* the direct match refused to a term that normalizes to nothing
DirectMatch_NonEmpty(search_term, filename_without_ext) ==
    /\ normalize_string_for_comparison(search_term) # ""
    /\ Contains(normalize_string_for_comparison(search_term),
                normalize_string_for_comparison(filename_without_ext))

\* lines 147-150: the direct substring match of smart mode
DirectMatch(search_term, filename_without_ext) ==
    Contains(normalize_string_for_comparison(search_term),
             normalize_string_for_comparison(filename_without_ext))

\* line 214: the checks combined
IntelligentChecks(s, p, title, file_title) ==
    /\ (s.found \/ title # "")
    /\ TitleCheck(title, file_title)
    /\ SxECheck(s, p)

\* lines 156-217: the match on title part and season/episode
IntelligentMatch(search_term, filename_without_ext) ==
    IntelligentChecks(extract_season_episode_from_string(search_term),
                      extract_season_episode_from_string(filename_without_ext),
                      SearchTitlePart(search_term), FileTitlePart(filename_without_ext))

\* lines 142-219: smart mode, for the name without its extension
SmartMatchStem(search_term, filename_without_ext) ==
    \/ DirectMatch(search_term, filename_without_ext)
    \/ IntelligentMatch(search_term, filename_without_ext)

SmartMatch(search_term, file) == SmartMatchStem(search_term, splitext(file).stem)

\* does find_file put the file in found_files
match_found(search_term, file, exact_match) ==
    /\ IsCandidate(file)
    /\ IF exact_match THEN ExactMatch(search_term, file) ELSE SmartMatch(search_term, file)

(***************************************************************************)
(* FileSearchService._run_search_task, step 3, for one classified item     *)
(***************************************************************************)

\* re.sub(r'[Ss]\d{1,2}[Ee]\d{1,2}(?:-\d{1,2})?', '', search_term), from position i
RECURSIVE SxESubFrom(_, _)
SxESubFrom(text, i) ==
    IF i > Len(text) THEN ""
    ELSE IF SxEMatchesAt(text, i, FALSE)
    THEN SxESubFrom(text, SxEAfter(i, SxEShapeAt(text, i, FALSE)))
    ELSE Ch(text, i) \o SxESubFrom(text, i + 1)

\* lines 100-103
ServiceSearchTitle(search_term) == clean_string_of_all_tags(strip(SxESubFrom(search_term, 1)))

\* lines 113-127
ServiceTitleMatch(search_term, item) ==
    TitleCheck(ServiceSearchTitle(search_term),
               normalize_string_for_comparison(item.parsed_data.title))

\* lines 129-158
ServiceSxEMatch(search_term, item) ==
    SxECheck(extract_season_episode_from_string(search_term),
             [found |-> item.parsed_data.episode # "", season |-> item.parsed_data.season,
              episode |-> item.parsed_data.episode])

\* line 160: how the two checks are combined
TvChecksPass(title_ok, sxe_ok) == title_ok \/ sxe_ok

\* lines 81-171: is the classified item appended to final_filtered_results
FilterKeepItem(search_term, item, selected_type, exact_match_mode) ==
    IF ~exact_match_mode /\ selected_type = "TV Show"
    THEN /\ item.category = "TV Show"
         /\ TvChecksPass(ServiceTitleMatch(search_term, item),
                         ServiceSxEMatch(search_term, item))
    ELSE selected_type = "All" \/ item.category = selected_type

(***************************************************************************)
(* The parsing and matching functions applied on their own: the arguments  *)
(* are drawn from bounded sets of names built from pieces.                 *)
(***************************************************************************)
RECURSIVE Concat(_)
Concat(ps) == IF ps = <<>> THEN "" ELSE Head(ps) \o Concat(Tail(ps))

\* the strings made of 1..n pieces
Names(pieces, n) == {Concat(ps) : ps \in UNION {[1..k -> pieces] : k \in 1..n}}

\* stems handed to the classifier and to the movie parser
StemPieces ==
    {"ab", ".", "_", " ", "-", "!", "S1E1", "s01e02-03", "720p", "4K", "1999", "1234",
     "HDTV", "x264"}
ClassifyStems == Names(StemPieces, MaxPieces)

\* files under the search location and search terms of the match engine
FilePieces == {"ab", ".", " ", "S1E1", "S1E12", "s01e02-03"}
SearchedFiles == {s \o ".mkv" : s \in Names(FilePieces, MaxPieces)} \cup {"ab.db", ".ab"}
TermPieces == {"Ab", ".", " ", "s1e1", "S01E2"}
SmartTerms == Names(TermPieces, MaxTermPieces)
ShortTerms == Names(TermPieces, MaxTermPieces - 1)
ExactTerms == ShortTerms \cup {t \o ".mkv" : t \in ShortTerms}

\* files and filters of the searches run through _run_search_task
FilteredFilePieces == {"ab", ".", "S1E1", "S1E12"}
FilteredFiles == {s \o ".mkv" : s \in Names(FilteredFilePieces, MaxPieces)}
SelectedTypes == {"TV Show", "Movie"}

\* texts handed to _normalize_string_for_comparison
NormalizePieces == {"Ab", "c", ".", "_", "-", " ", "\t"}
NormalizeTexts == Names(NormalizePieces, MaxPieces) \cup {""}

\* the functions applied and the arguments they are given
IsCall(c) ==
    \/ \E s \in NormalizeTexts :
          c = [fn |-> "normalize_string_for_comparison", text |-> s, none |-> FALSE]
    \/ c = [fn |-> "normalize_string_for_comparison", text |-> "", none |-> TRUE]
    \/ \E s \in ClassifyStems : c = [fn |-> "classify_and_parse_file", file |-> s \o ".mkv"]
    \/ \E s \in ClassifyStems : c = [fn |-> "parse_movie_filename", stem |-> s]
    \/ \E t \in ExactTerms, f \in SearchedFiles :
          c = [fn |-> "find_file", term |-> t, file |-> f, exact |-> TRUE]
    \/ \E t \in SmartTerms, f \in SearchedFiles :
          c = [fn |-> "find_file", term |-> t, file |-> f, exact |-> FALSE]
    \/ \E t \in ShortTerms, f \in FilteredFiles, c2 \in SelectedTypes :
          c = [fn |-> "run_search_task", term |-> t, file |-> f, sel |-> c2]

\* _normalize_string_for_comparison(text); none: the argument is None
CallNormalize ==
    /\ call.fn = "normalize_string_for_comparison" /\ ret = NoRet
    /\ ret' = [fn |-> call.fn,
               text |-> IF call.none \/ call.text = "" THEN ""
                        ELSE normalize_string_for_comparison(call.text)]
    /\ UNCHANGED <<call, cfg, svars, gvars, bvars>>

CallClassify ==
    /\ call.fn = "classify_and_parse_file" /\ ret = NoRet
    /\ ret' = [fn |-> call.fn, item |-> classify_and_parse_file(call.file)]
    /\ UNCHANGED <<call, cfg, svars, gvars, bvars>>

CallParseMovie ==
    /\ call.fn = "parse_movie_filename" /\ ret = NoRet
    /\ ret' = [fn |-> call.fn, parsed_data |-> parse_movie_filename(call.stem)]
    /\ UNCHANGED <<call, cfg, svars, gvars, bvars>>

\* find_file over a location that holds the one file: is it returned
CallFindFile ==
    /\ call.fn = "find_file" /\ ret = NoRet
    /\ ret' = [fn |-> call.fn, matched |-> match_found(call.term, call.file, call.exact)]
    /\ UNCHANGED <<call, cfg, svars, gvars, bvars>>

\* _run_search_task in smart mode over a location that holds the one file,
\* never stopped: is the file in the list handed to result_callback
CallRunSearchTask ==
    /\ call.fn = "run_search_task" /\ ret = NoRet
    /\ LET matched == match_found(call.term, call.file, FALSE)
           item == classify_and_parse_file(call.file) IN
       ret' = [fn |-> call.fn,
               kept |-> matched /\ FilterKeepItem(call.term, item, call.sel, FALSE)]
    /\ UNCHANGED <<call, cfg, svars, gvars, bvars>>

ParseInit ==
    /\ Orchestration
    /\ cfg = [sel |-> "All", exact |-> FALSE, mode |-> "Multiple"]
    /\ IsCall(call)
    /\ ret = NoRet

ParseNext ==
    \/ CallNormalize
    \/ CallClassify
    \/ CallParseMovie
    \/ CallFindFile
    \/ CallRunSearchTask

ParseSpec == ParseInit /\ [][ParseNext]_vars

(***************************************************************************)
(* Properties                                                              *)
(***************************************************************************)

\* C1: on one FileSearchService, at no time are two _run_search_task
\* invocations executing, whatever the interleaving of the start_search
\* calls of the GUI thread and of the batch thread.
C1_OneSearchTaskAtATime == Cardinality(Running) <= 1

\* C2: a start request made while a run of the same orchestrator is alive
\* invokes the error callback synchronously with the 'already running'
\* message, creates no thread, keeps nothing pending, and leaves the stop
\* flag and the thread reference of the running job as they were.
C2_StartSearchCall == gcount'.start_search = gcount.start_search + 1
C2_BatchStartSearchCall == bpc = "ss_check" /\ bpc' # "ss_check"
C2_StartBatchCall == gcount'.start_batch = gcount.start_batch + 1
C2_RejectedWhileAlive ==
    [][ /\ (C2_StartSearchCall /\ is_alive(search_thread))
            => /\ gui_errors' = Append(gui_errors, AlreadyRunning)
               /\ gpc' = "idle"
               /\ UNCHANGED <<stop_event, search_thread, nTasks, task>>
        /\ (C2_BatchStartSearchCall /\ is_alive(search_thread))
            => /\ current_term_error' = AlreadyRunning
               /\ bpc' = "wait"
               /\ UNCHANGED <<stop_event, search_thread, nTasks, task>>
        /\ (C2_StartBatchCall /\ batch_alive)
            => /\ gui_errors' = Append(gui_errors, BatchAlreadyRunning)
               /\ UNCHANGED <<batch_process_running, current_batch_thread, batch_alive, bpc,
                              search_terms, bi, all_batch_results>>
      ]_vars

\* a batch term whose start_search was rejected because a search was alive
C2_Witness ==
    /\ bpc = "wait"
    /\ current_term_error = AlreadyRunning
    /\ is_alive(search_thread)
    /\ \A t \in TaskIds : task[t].pc # "none" => task[t].owner = GuiOwner

\* the items of a find_file result that pass the filter of step 3
Kept(term, found) ==
    SelectSeq(found, LAMBDA f : FilterKeep(term, f, cfg.sel, cfg.exact))

\* C3: a search that found the stop signal set while walking the tree hands
\* to result_callback the files matched and classified before that, and
\* reports no error: its outcome is not a missing result list.
C3_StoppedWalkReturnsPartial ==
    \A t \in TaskIds :
        (task[t].pc = "exit" /\ hist[t].saw_stop = "walk" /\ task[t].found # <<>>)
            => /\ hist[t].res = << Kept(task[t].term, task[t].found) >>
               /\ hist[t].err = 0

\* C4: a stopped search can be told from one that completed with no match:
\* its callbacks are not those of a completed search with zero results
\* (result_callback([]) then completion_callback), the status recorded for
\* its batch term is not 'no_results', and the stop is not reported through
\* error_callback.
C4_StopDistinguishable ==
    /\ \A t \in TaskIds :
          (task[t].pc = "exit" /\ hist[t].saw_stop # "no")
              => /\ hist[t].res # << <<>> >>
                 /\ (~hist[t].raised => hist[t].err = 0)
    /\ \A i \in 1..Len(all_batch_results) :
          (i \in bhist.stopped /\ bhist.timeouts = 0)
              => all_batch_results[i].status # "no_results"

\* C5: in a batch run the search of a later term is never started while the
\* search of an earlier term has not yet delivered its completion callback.
C5_TermsStrictlySequential ==
    \A t1, t2 \in TaskIds :
        ~ /\ task[t1].owner # GuiOwner
          /\ task[t1].owner = task[t2].owner
          /\ task[t1].bterm < task[t2].bterm
          /\ is_alive(t1) /\ hist[t1].compl = 0
          /\ is_alive(t2)

\* C6: a batch job that was started invokes its completion_callback exactly
\* once before its thread ends, whatever happens to the searches of its terms.
C6_BatchCompletesOnce ==
    (current_batch_thread # 0 /\ ~batch_alive) => Len(bhist.compl) = 1

\* an accepted start_search whose Thread object was replaced in
\* self.search_thread before it was started: nothing can start it any more
Orphaned(t) == task[t].pc = "created" /\ search_thread # t

\* C7: every accepted start_search has had exactly one completion_callback
\* once its thread has finished or can no longer run.
C7_AcceptedStartCompletesOnce ==
    \A t \in TaskIds : (task[t].pc = "exit" \/ Orphaned(t)) => hist[t].compl = 1

\* batch_tab.py:348-375: the total of files found shown in the summary
RECURSIVE TotalFilesFound(_)
TotalFilesFound(entries) ==
    IF entries = <<>> THEN 0
    ELSE (IF Head(entries).status = "completed" /\ Head(entries).results # <<>>
          THEN Len(Head(entries).results) ELSE 0) + TotalFilesFound(Tail(entries))

RECURSIVE SumOfCounts(_)
SumOfCounts(entries) ==
    IF entries = <<>> THEN 0
    ELSE Len(Head(entries).results) + SumOfCounts(Tail(entries))

\* C8: a batch run that was not stopped hands to completion_callback one
\* entry per term, in the order of the term list; an entry is 'completed'
\* when its term's search returned at least one file, 'no_results' when it
\* returned none without error; the total of files found is the sum of the
\* entries' result counts.
C8_OneEntryPerTerm ==
    \A n \in 1..Len(bhist.compl) :
        LET c == bhist.compl[n] IN
        (~c.was_stopped /\ ~bhist.stop_req) =>
            /\ Len(c.results) = Len(search_terms)
            /\ \A i \in 1..Len(c.results) :
                  LET e == c.results[i] IN
                  /\ e.term = search_terms[i]
                  /\ (c.ret[i] # <<>> /\ c.ret[i][1] # <<>>)
                        => e.status = "completed"
                  /\ ((c.ret[i] = <<>> \/ c.ret[i][1] = <<>>)
                         /\ e.error_message = NoError) => e.status = "no_results"
            /\ TotalFilesFound(c.results) = SumOfCounts(c.results)

C10_FileFailureKeepsOtherFiles ==
    \A t \in TaskIds :
        (task[t].pc = "exit" /\ hist[t].raised /\ Len(task[t].found) >= 2)
            => /\ Len(hist[t].res) = 1 /\ hist[t].res[1] # <<>>
               /\ hist[t].err = 0

\* the stem of the file handed to classify_and_parse_file
ClassifiedStem == splitext(call.file).stem

\* C11: classify_and_parse_file returns one category, decided in this order:
\* TV Show exactly when the TV parser extracted a season and an episode;
\* otherwise Movie exactly when the movie parser found a year, a resolution,
\* a source or a video format; otherwise Other, with a payload that holds
\* only original_filename.
C11_CategoryDecidedInOrder ==
    ret.fn = "classify_and_parse_file" =>
        LET tv == parse_tv_show_filename(ClassifiedStem)
            mv == parse_movie_filename(ClassifiedStem)
            hasSxE == tv.season # -1 /\ tv.episode # ""
            hasTag == \E k \in {"year", "resolution", "source", "video_format"} : mv[k] # "" IN
        /\ ret.item.category \in {"TV Show", "Movie", "Other"}
        /\ (ret.item.category = "TV Show") <=> hasSxE
        /\ (ret.item.category = "Movie") <=> (~hasSxE /\ hasTag)
        /\ (ret.item.category = "Other") <=> (~hasSxE /\ ~hasTag)
        /\ (ret.item.category = "TV Show") => ret.item.parsed_data = tv
        /\ (ret.item.category = "Movie") => ret.item.parsed_data = mv
        /\ (ret.item.category = "Other")
               => ret.item.parsed_data = [original_filename |-> call.file]

\* a file the TV test let through and the movie heuristic took for its
\* resolution alone
C11_Witness ==
    /\ ret.fn = "classify_and_parse_file"
    /\ ret.item.category = "Movie"
    /\ ret.item.parsed_data.resolution # ""
    /\ ret.item.parsed_data.year = ""
    /\ ret.item.parsed_data.source = ""

\* a separator character of file names
IsSeparator(c) == c \in {".", "_", "-", " "}

\* text[i..j-1] stands between separators or the ends of the text
IsToken(text, i, j) ==
    /\ (i = 1 \/ IsSeparator(Ch(text, i - 1)))
    /\ (j = Len(text) + 1 \/ IsSeparator(Ch(text, j)))

\* the text holds an SxxExx token set off by separators
HasSxEToken(text) ==
    \E i \in 1..Len(text), k \in 1..Len(SxEShapes) :
        /\ SxEMatchAt(text, i, SxEShapes[k], FALSE)
        /\ IsToken(text, i, SxEAfter(i, SxEShapes[k]))

\* C12: a file name that holds a valid SxxExx token is classified TV Show,
\* whatever other tokens it holds and whichever separators (dot, underscore,
\* hyphen, space) surround the token.
C12_SxETokenIsTvShow ==
    (ret.fn = "classify_and_parse_file" /\ HasSxEToken(ClassifiedStem))
        => ret.item.category = "TV Show"

\* the text holds a resolution token set off by separators
HasResolutionToken(text) ==
    \E i \in 1..Len(text), k \in 1..Len(resolution_pattern) :
        /\ AltMatchAt(text, i, resolution_pattern[k])
        /\ IsToken(text, i, i + Len(resolution_pattern[k]))

\* C13: a file name that holds a resolution token and no SxxExx token is
\* classified Movie, whichever separators surround the resolution token.
C13_ResolutionTokenIsMovie ==
    ( /\ ret.fn = "classify_and_parse_file"
      /\ HasResolutionToken(ClassifiedStem)
      /\ \A i \in 1..Len(ClassifiedStem) : ~SxEMatchesAt(ClassifiedStem, i, FALSE) )
        => ret.item.category = "Movie"

\* C14: in exact mode a file that is looked at matches exactly when the
\* lowercased, stripped term equals the lowercased, stripped file name or
\* the lowercased, stripped name without its extension; separators are not
\* normalised and the term is not split into title and season/episode.
C14_ExactModeIsLiteral ==
    (ret.fn = "find_file" /\ call.exact /\ IsCandidate(call.file))
        => ( ret.matched <=>
                \/ strip(lower(call.term)) = strip(lower(call.file))
                \/ strip(lower(call.term)) = strip(lower(splitext(call.file).stem)) )

\* a term matched through case folding and stripping only
C14_Witness ==
    /\ ret.fn = "find_file" /\ call.exact /\ ret.matched
    /\ call.term # call.file
    /\ call.term # splitext(call.file).stem
    /\ extract_season_episode_from_string(call.term).found

\* C15: in smart mode a file that is looked at and whose normalised stem
\* does not contain the normalised term is matched exactly when the title
\* check and the episode check hold and the term has a season or a title
\* part; the title check holds when the term's title part is empty or a
\* substring of the file's title part, the episode check when the term has
\* no season, or the seasons are equal as integers and some episode number
\* of the term is one of the file's.
C15_SmartMatchIsTitleAndEpisode ==
    ( /\ ret.fn = "find_file" /\ ~call.exact /\ IsCandidate(call.file)
      /\ ~DirectMatch(call.term, splitext(call.file).stem) )
        => LET s == extract_season_episode_from_string(call.term)
               p == extract_season_episode_from_string(splitext(call.file).stem)
               term_title == SearchTitlePart(call.term)
               file_title == FileTitlePart(splitext(call.file).stem)
               title_match == term_title = "" \/ Contains(term_title, file_title)
               episode_match ==
                   \/ ~s.found
                   \/ /\ p.found /\ p.season = s.season
                      /\ \E e \in episode_numbers(s.episode) : e \in episode_numbers(p.episode)
           IN ret.matched <=> (title_match /\ episode_match /\ (s.found \/ term_title # ""))

\* a file matched on title part and episode, not by the substring test
C15_Witness ==
    /\ ret.fn = "find_file" /\ ~call.exact /\ ret.matched
    /\ ~DirectMatch(call.term, splitext(call.file).stem)
    /\ SearchTitlePart(call.term) # ""

\* C16: in smart mode, when the term and the file both hold an SxxExx token
\* with the same season and no episode number in common, the file is not
\* matched, whatever the titles and the digit strings of the tokens.
C16_EpisodeMismatchNeverMatches ==
    (ret.fn = "find_file" /\ ~call.exact)
        => LET s == extract_season_episode_from_string(call.term)
               p == extract_season_episode_from_string(splitext(call.file).stem) IN
           ( /\ s.found /\ p.found /\ s.season = p.season
             /\ episode_numbers(s.episode) \cap episode_numbers(p.episode) = {} )
               => ~ret.matched

\* C17: in smart mode with the TV Show filter, an item is kept in the final
\* results only if its title check and its season/episode check both succeed.
C17_TvFilterNeedsBothChecks ==
    (ret.fn = "run_search_task" /\ call.sel = "TV Show" /\ ret.kept)
        => LET item == classify_and_parse_file(call.file) IN
           /\ ServiceTitleMatch(call.term, item)
           /\ ServiceSxEMatch(call.term, item)

\* C18: every item handed to result_callback has the selected category,
\* unless the selection is All, and is a file the match engine matched
\* for the task's term; in exact mode, in smart mode, and when the filter
\* loop is cut short by a stop.
C18_ResultsFilteredAndMatched ==
    \A t \in TaskIds :
        \A n \in 1..Len(hist[t].res) :
            \A j \in 1..Len(hist[t].res[n]) :
                LET f == hist[t].res[n][j] IN
                /\ cfg.sel = "All" \/ Category(f) = cfg.sel
                /\ MatchFound(task[t].term, f)

\* a filter loop cut short by a stop delivered the item it had kept
C18_Witness ==
    \E t \in TaskIds :
        /\ hist[t].saw_stop = "filter"
        /\ cfg.sel # "All"
        /\ Len(hist[t].res) = 1
        /\ Len(hist[t].res[1]) = 1

\* no tag pattern of base_parser.py matches anywhere in the text
NoReleaseTag(text) ==
    \A k \in 1..Len(TagPatterns) : PatternSearch(TagPatterns[k], text) = ""

\* C19: for a stem that holds no recognised release tag, the title given by
\* parse_movie_filename is the normalised form of the whole stem; no word of
\* the stem is lost.
C19_UntaggedStemKeepsTitle ==
    (ret.fn = "parse_movie_filename" /\ NoReleaseTag(call.stem))
        => ret.parsed_data.title = normalize_string_for_comparison(call.stem)

\* a 4-digit token of the text, set off by separators
FourDigitTokens(text) ==
    { SubSeq(text, i, i + 3) : i \in { j \in 1..Len(text) :
        /\ j + 3 <= Len(text)
        /\ \A d \in 0..3 : IsDigit(Ch(text, j + d))
        /\ IsToken(text, j, j + 4) } }

\* C20: the year of a Movie, when there is one, is a 4-digit token in
\* 1900..2099; a 4-digit token outside this range is not taken as the year
\* and does not by itself make the file a Movie.
C20_YearInRange ==
    ret.fn = "classify_and_parse_file" =>
        LET mv == parse_movie_filename(ClassifiedStem) IN
        /\ (ret.item.category = "Movie" /\ ret.item.parsed_data.year # "")
               => /\ ret.item.parsed_data.year \in FourDigitTokens(ClassifiedStem)
                  /\ int(ret.item.parsed_data.year) \in 1900..2099
        /\ ( /\ ret.item.category = "Movie"
             /\ mv.resolution = "" /\ mv.source = "" /\ mv.video_format = "" )
               => \E y \in FourDigitTokens(ClassifiedStem) : int(y) \in 1900..2099

\* C21: _normalize_string_for_comparison is idempotent; its result is
\* lowercase, holds none of '.', '_', '-', holds no two whitespace characters
\* in a row and no whitespace at either end; the empty string and None give
\* the empty string.
C21_NormalizeIsIdempotent ==
    (ret # NoRet /\ ret.fn = "normalize_string_for_comparison") =>
        /\ normalize_string_for_comparison(ret.text) = ret.text
        /\ lower(ret.text) = ret.text
        /\ \A i \in 1..Len(ret.text) :
              /\ Ch(ret.text, i) \notin {".", "_", "-"}
              /\ i > 1 => ~(IsSpace(Ch(ret.text, i - 1)) /\ IsSpace(Ch(ret.text, i)))
        /\ ret.text # "" => ~IsSpace(Ch(ret.text, 1)) /\ ~IsSpace(Ch(ret.text, Len(ret.text)))
        /\ (call.none \/ call.text = "") => ret.text = ""

\* a text with a capital, a separator and a run of whitespace was normalized
C21_Witness ==
    /\ ret # NoRet /\ ret.fn = "normalize_string_for_comparison"
    /\ call.text = "Ab_\t"
    /\ ret.text = "ab"

\* C22: a search whose location is not a directory is rejected before any
\* scanning begins and the caller is told through the error callback: unless
\* it was stopped, no result list is delivered for it and it ends with an
\* error reported.
C22_InvalidLocationIsAnError ==
    \A t \in TaskIds :
        (hist[t].noloc /\ hist[t].saw_stop = "no") =>
            /\ hist[t].res = <<>>
            /\ task[t].pc = "exit" => hist[t].err >= 1

\* C23: in the list a batch run hands to completion_callback, the entry of a
\* term whose own search returned results holds, in mode Single, exactly the
\* first result returned and, in mode Multiple, all the results returned, in
\* the order returned.
C23_EntryHoldsReturnedResults ==
    \A n \in 1..Len(bhist.compl) :
        LET c == bhist.compl[n] IN
        \A i \in 1..Len(c.results) :
            (c.ret[i] # <<>> /\ c.ret[i][1] # <<>>) =>
                c.results[i].results = IF cfg.mode = "Single" THEN << c.ret[i][1][1] >>
                                       ELSE c.ret[i][1]

\* thread t belongs to the running batch, was started for a term before the
\* current one, and takes a step while the loop is inside the current term's
\* iteration (the event, the list and the error are the current term's)
C24_LateStepOfEarlierTerm(t) ==
    /\ CellsOf(task[t].owner)
    /\ task[t].bterm < bi
    /\ bpc \in {"ss_check", "ss_create", "ss_start", "wait", "record"}
    /\ task'[t] # task[t]

\* C24: what the entry of term i is built from comes from the search started
\* for term i only: a step of an earlier term's search adds no result to the
\* current term's list, does not set its error and does not set the event its
\* wait is blocked on.
C24_TermIsolatedFromEarlierSearch ==
    [][\A t \in TaskIds :
          C24_LateStepOfEarlierTerm(t) =>
              UNCHANGED <<current_term_search_results, current_term_error,
                          single_search_complete_event>>]_vars

\* C25: in the first batch run of the application, during which the GUI
\* makes no start_search and no stop_search call and no wait times out on a
\* running search, every term's start_search is accepted: no entry is
\* recorded with the 'already in progress' error.
C25_EveryTermIsAccepted ==
    (/\ current_batch_thread = 1
     /\ gcount.start_search = 0 /\ gcount.stop_search = 0
     /\ bhist.timeouts = 0) =>
        \A i \in 1..Len(all_batch_results) :
            all_batch_results[i].error_message # AlreadyRunning

\* the entries are those of the first terms of the list, in order
C26_EntriesOfAPrefix(entries) ==
    /\ Len(entries) <= Len(search_terms)
    /\ \A i \in 1..Len(entries) : entries[i].term = search_terms[i]

\* C26: stop_batch_processing leaves the search in flight alone (no stop
\* signal, the thread goes on); once it was called during a run the loop
\* begins no further iteration, so the only search started after it is the
\* one of the iteration that had already passed its flag check; a term whose
\* search was started gets its entry before the run completes, and the list
\* handed to completion_callback holds the entries of a prefix of the terms.
C26_StopLeavesSearchInFlight ==
    [][ /\ (gcount'.stop_batch = gcount.stop_batch + 1)
            => UNCHANGED <<stop_event, search_thread, task>>
        /\ (bhist.stop_req /\ batch_alive /\ bpc = "loop")
            => bpc' \in {"loop", "done"}
        /\ (bhist.stop_req /\ Len(bhist'.compl) > Len(bhist.compl))
            => /\ C26_EntriesOfAPrefix(all_batch_results)
               /\ bhist'.compl[Len(bhist'.compl)].results = all_batch_results
               /\ Len(all_batch_results) = bi - 1
      ]_vars

\* a run stopped while its first search was in flight: the search finished,
\* its entry was recorded, and the second term was never started
C26_Witness ==
    /\ bhist.stop_req
    /\ Len(search_terms) = 2
    /\ Len(bhist.compl) = 1
    /\ bhist.compl[1].was_stopped
    /\ Len(bhist.compl[1].results) = 1
    /\ bhist.compl[1].results[1].status = "completed"
    /\ bhist.timeouts = 0
    /\ nTasks = 1

\* C27: a stop signal set while no search is running never reaches the next
\* search: when the thread of an accepted start_search is about to be started
\* and no search thread is alive, the stop signal is clear.
C27_StaleStopNeverCancels ==
    \A t \in TaskIds :
        (task[t].pc = "created" /\ search_thread = t /\ Running = {}) => ~stop_event

\* the files of the tree in the order os.walk yields them
RECURSIVE C28_FilesFrom(_)
C28_FilesFrom(d) == IF d > Len(Tree) THEN <<>> ELSE Tree[d] \o C28_FilesFrom(d + 1)

\* the list find_file returns for the term when it is never stopped
C28_FullWalk(term) == SelectSeq(C28_FilesFrom(1), LAMBDA f : MatchFound(term, f))

C28_IsPrefix(p, s) == Len(p) <= Len(s) /\ SubSeq(s, 1, Len(p)) = p

\* C28: find_file tests the stop signal when it enters a directory and
\* before each file, and a file is matched in one piece; a step of the walk
\* that finds the signal set examines no file and returns the matches found
\* so far, and what the walk holds is at every moment a prefix of the list an
\* unstopped walk in the same order returns.
C28_StoppedWalkReturnsPrefix ==
    [][\A t \in TaskIds :
          (task[t].pc \in {"walk_dir", "walk_file"} /\ task'[t] # task[t]) =>
              /\ stop_event => /\ task'[t].pc = "post_walk"
                               /\ task'[t].found = task[t].found
              /\ C28_IsPrefix(task'[t].found, C28_FullWalk(task[t].term))
              /\ task'[t].found # task[t].found =>
                    /\ task[t].pc = "walk_file"
                    /\ task'[t].found =
                           Append(task[t].found, Tree[task[t].d][task[t].k])]_vars

\* a walk stopped after its first match, with a second matching file unexamined
C28_Witness ==
    \E t \in TaskIds :
        /\ task[t].pc = "post_walk"
        /\ hist[t].saw_stop = "walk"
        /\ task[t].found # <<>>
        /\ task[t].found # C28_FullWalk(task[t].term)

\* the text before the SxxExx token found in the stem, and the token itself
C29_Prefix(stem, sxe) == strip(SubSeq(stem, 1, sxe.first - 1))
C29_Token(stem, sxe) == SubSeq(stem, sxe.first, sxe.after - 1)

\* the stem holds an SxxExx token preceded by at least one word, and no
\* release tag stands before the token
C29_TitledEpisode(stem, sxe) ==
    /\ sxe.found
    /\ normalize_string_for_comparison(C29_Prefix(stem, sxe)) # ""
    /\ NoReleaseTag(C29_Prefix(stem, sxe))

C29_TitleFromPrefix(stem, sxe, title) ==
    C29_TitledEpisode(stem, sxe) =>
        /\ title = normalize_string_for_comparison(
                       clean_string_of_all_tags(C29_Prefix(stem, sxe)))
        /\ ~Contains(normalize_string_for_comparison(C29_Token(stem, sxe)), title)

\* C29: for a stem with an SxxExx token preceded by at least one word that
\* is not a release tag, the series title of the TV Show record is the
\* tag-stripped, normalized text before the token; it does not contain the
\* token.
C29_SeriesTitleFromPrefix ==
    (ret.fn = "classify_and_parse_file" /\ ret.item.category = "TV Show") =>
        C29_TitleFromPrefix(ClassifiedStem,
                            extract_season_episode_from_string(ClassifiedStem),
                            ret.item.parsed_data.title)

\* C30: in smart mode find_file returns, for a search term whose normalized
\* form is the empty string, every file of the location that is not excluded
\* as a system or hidden file.
C30_EmptyTermMatchesEveryFile ==
    (/\ ret.fn = "find_file" /\ ~call.exact
     /\ normalize_string_for_comparison(call.term) = ""
     /\ IsCandidate(call.file)) => ret.matched

\* a term made of separators only was searched for and an episode file returned
C30_Witness ==
    /\ ret.fn = "find_file" /\ ~call.exact
    /\ call.term = ". "
    /\ call.file = "ab.S1E1.mkv"
    /\ ret.matched

====
